---------------------------- MODULE Spec2Model ----------------------------
(***************************************************************************)
(* A model of the parser-combinator library of src/src/combinators.ts.     *)
(*                                                                         *)
(* A parser of the library is a closure (input, index) => ParseResult.    *)
(* The model represents a closure by a record naming the combinator that  *)
(* built it and the values it captured ([op |-> "char", c |-> <<"a">>]);   *)
(* applying it is the operator Run, which dispatches to one operator per   *)
(* closure body of the source (char, alt, seq, map, many, ...).  Each of   *)
(* these returns the closure's outcome together with the sub-parser calls  *)
(* and the callback applications its own body made, in order.              *)
(*                                                                         *)
(* A JavaScript string is a sequence of one-character strings; an          *)
(* expectation message is a TLA+ string built by concatenation, as the     *)
(* template literals of the source build it.                               *)
(*                                                                         *)
(* Three specifications share the variables.  Spec: the library's parsers  *)
(* applied to every bounded input and start index.  MemoSpec: sequences of *)
(* calls to wrappers built by memoize, over the module-level cache `memo`. *)
(* ChainSpec: the dependent andThen chain of tests/parser.test.ts on       *)
(* inputs of digits and underscores.  The parsers of Spec and ChainSpec    *)
(* never read or write `memo`, so the three are checked apart.             *)
(***************************************************************************)
EXTENDS Integers, Sequences, FiniteSets

VARIABLES
    parser,       \* the parser value applied by the last call
    input,        \* its input (a sequence of characters)
    index,        \* its start index
    result,       \* the outcome it returned
    calls,        \* the sub-parser invocations its body made, in order
    applied,      \* the callback applications (fn, validate) its body made
    memo,         \* the module-level cache: parser object -> (index -> outcome)
    invoked,      \* how many times each wrapped parser object ran at each index
    origin,       \* history: the input each cache entry was computed for
    filledBy,     \* history: the wrapper whose call stored each cache entry
    hits,         \* how many calls of a wrapper have been made
    wrapper       \* the wrapper called last (0: none)

vars ==
    <<parser, input, index, result, calls, applied, memo, invoked, origin, filledBy,
      hits, wrapper>>

(***************************************************************************)
(* Bounds of the model.                                                    *)
(***************************************************************************)
MaxLen == 3
MaxArity == 2
MaxCalls == 3
MemoLen == 1

Alphabet == {"a", "1", " "}

Texts(A, n) == UNION {[1..k -> A] : k \in 0..n}

Inputs == Texts(Alphabet, MaxLen)

\* Start indexes: every position of the input, its end, and one past the end.
Indexes(s) == 0..(Len(s) + 1)

(***************************************************************************)
(* Values and outcomes (src/src/-types.ts).                                *)
(***************************************************************************)
Str(t) == [k |-> "str", v |-> t]
Arr(vs) == [k |-> "arr", v |-> vs]
Num(n) == [k |-> "num", v |-> n]
Null == [k |-> "null", v |-> <<>>]
Undefined == [k |-> "undef", v |-> <<>>]

Success(value, idx) == [success |-> TRUE, value |-> value, index |-> idx]
Failure(expected, idx) == [success |-> FALSE, expected |-> expected, index |-> idx]

\* A call that does not return: the loop never ends, or a callback threw.
Diverges == [abnormal |-> "diverges"]
Throws == [abnormal |-> "throws"]
Returns(r) == "success" \in DOMAIN r

\* What a closure body hands back to the model: its outcome, the parser
\* invocations and the callback applications it made.
Ret(out, cs, ap) == [out |-> out, calls |-> cs, applied |-> ap]
Call(p, at) == [p |-> p, at |-> at]
App(f, arg) == [f |-> f, arg |-> arg]

(***************************************************************************)
(* JavaScript string operations used by the source.                        *)
(***************************************************************************)
Min(a, b) == IF a < b THEN a ELSE b
Max(a, b) == IF a > b THEN a ELSE b

\* The text of a sequence of characters, halves first to keep the depth low.
RECURSIVE Join(_)
Join(t) ==
    IF Len(t) = 0 THEN ""
    ELSE IF Len(t) = 1 THEN t[1]
    ELSE Join(SubSeq(t, 1, Len(t) \div 2)) \o Join(SubSeq(t, Len(t) \div 2 + 1, Len(t)))

\* input[index]: the character at a 0-based index, undefined outside.
CharAt(s, i) == IF i >= 0 /\ i < Len(s) THEN Str(<<s[i + 1]>>) ELSE Undefined

\* String.prototype.slice(from, to): negative arguments count from the end.
Slice(s, from, to) ==
    LET n == Len(s)
        lo == IF from < 0 THEN Max(n + from, 0) ELSE Min(from, n)
        hi == IF to < 0 THEN Max(n + to, 0) ELSE Min(to, n)
    IN  SubSeq(s, lo + 1, hi)

\* `'${s}'`
Quote(t) == "'" \o Join(t) \o "'"

AsciiLetters ==
    {"a", "b", "c", "d", "e", "f", "g", "h", "i", "j", "k", "l", "m",
     "n", "o", "p", "q", "r", "s", "t", "u", "v", "w", "x", "y", "z",
     "A", "B", "C", "D", "E", "F", "G", "H", "I", "J", "K", "L", "M",
     "N", "O", "P", "Q", "R", "S", "T", "U", "V", "W", "X", "Y", "Z"}
DecimalDigits == {"0", "1", "2", "3", "4", "5", "6", "7", "8", "9"}
\* The four characters whitespace() compares against.
FourSpaces == {" ", "\t", "\n", "\r"}
\* The characters /\s/ matches (those a model input can hold).
RegexSpaces == {" ", "\t", "\n", "\r", "\f"}

\* /^[a-zA-Z]$/.test(c)
IsLetter(v) == v.k = "str" /\ Len(v.v) = 1 /\ v.v[1] \in AsciiLetters
\* /\d/.test(c)
HasDigit(v) == v.k = "str" /\ \E k \in 1..Len(v.v) : v.v[k] \in DecimalDigits

\* [...new Set(errors)]: first occurrences, in order.
RECURSIVE Dedup(_)
Dedup(es) ==
    IF es = <<>> THEN <<>>
    ELSE LET front == Dedup(SubSeq(es, 1, Len(es) - 1))
             last == es[Len(es)]
         IN  IF \E k \in 1..Len(front) : front[k] = last
             THEN front
             ELSE Append(front, last)


(***************************************************************************)
(* Parser values: the closures the combinators return, as records of the   *)
(* combinator's name and the captured arguments.                           *)
(***************************************************************************)
CharP(c) == [op |-> "char", c |-> c]
StringP(s) == [op |-> "string", s |-> s]
SucceedP(value) == [op |-> "succeed", v |-> value]
FailP(expected) == [op |-> "fail", e |-> expected]
AltP(parsers) == [op |-> "alt", ps |-> parsers]
SeqP(parsers) == [op |-> "seq", ps |-> parsers]
MapP(p, fn, validate) == [op |-> "map", p |-> p, fn |-> fn, validate |-> validate]
ManyP(p) == [op |-> "many", p |-> p]
Many1P(p) == [op |-> "many1", p |-> p]
UntilP(stop, p) == [op |-> "until", stop |-> stop, p |-> p]
NotP(p) == [op |-> "not", p |-> p]
ExceptP(exclusion, p) == [op |-> "except", exclusion |-> exclusion, p |-> p]
AnyCharP == [op |-> "anyChar"]
WhitespaceP == [op |-> "whitespace"]
WhitespacesP == [op |-> "whitespaces"]
AndThenStepP(currentParser, fn) == [op |-> "andThen", p |-> currentParser, fn |-> fn]
RecoverWithP(p, expected) == [op |-> "recoverWith", p |-> p, expected |-> expected]
PeekP(p) == [op |-> "peek", p |-> p]
EofP(p) == [op |-> "eof", p |-> p]

(***************************************************************************)
(* Callbacks.  A callback is named; NoValidate is an absent `validate`.    *)
(* The library's own callbacks are translated from their source; "toArray" *)
(* (v => [v]), "always" and "never" stand for callbacks a caller passes.   *)
(***************************************************************************)
NoValidate == "none"
Thrown == [k |-> "thrown", v |-> <<>>]
NaN == [k |-> "nan", v |-> <<>>]

DigitValue(c) ==
    CASE c = "0" -> 0 [] c = "1" -> 1 [] c = "2" -> 2 [] c = "3" -> 3
      [] c = "4" -> 4 [] c = "5" -> 5 [] c = "6" -> 6 [] c = "7" -> 7
      [] c = "8" -> 8 [] c = "9" -> 9

\* Number.parseInt(t, 10) of a text without sign or blanks: the value of
\* its longest prefix of digits, NaN when that prefix is empty.
RECURSIVE DigitsPrefix(_)
DigitsPrefix(t) ==
    IF t = <<>> \/ Head(t) \notin DecimalDigits THEN <<>>
    ELSE <<Head(t)>> \o DigitsPrefix(Tail(t))

RECURSIVE DecimalValue(_)
DecimalValue(t) ==
    IF t = <<>> THEN 0
    ELSE 10 * DecimalValue(SubSeq(t, 1, Len(t) - 1)) + DigitValue(t[Len(t)])

ParseInt(t) ==
    IF DigitsPrefix(t) = <<>> THEN NaN ELSE Num(DecimalValue(DigitsPrefix(t)))

\* digits.join(''): the concatenation of an array of strings.
RECURSIVE JoinTexts(_)
JoinTexts(vs) == IF vs = <<>> THEN <<>> ELSE Head(vs).v \o JoinTexts(Tail(vs))

\* ...result[1].map(([, i]) => i)
RECURSIVE Seconds(_)
Seconds(pairs) ==
    IF pairs = <<>> THEN <<>> ELSE <<Head(pairs).v[2]>> \o Seconds(Tail(pairs))

integerFn(v) ==
    LET sign == v.v[1]
        num == ParseInt(JoinTexts(v.v[2].v))
    IN  IF sign = Str(<<"-">>) /\ num.k = "num" THEN Num(-num.v) ELSE num

ApplyFn(fn, v) ==
    CASE fn = "letterFn" -> IF IsLetter(v) THEN v ELSE Thrown
      [] fn = "digitFn" -> IF HasDigit(v) THEN v ELSE Thrown
      [] fn = "integerFn" -> integerFn(v)
      [] fn = "betweenFn" -> v.v[2]
      [] fn = "afterFn" -> v.v[2]
      [] fn = "tokenFn" -> v.v[1]
      [] fn = "sepByFn" -> Arr(<<v.v[1]>> \o Seconds(v.v[2].v))
      [] fn = "toArray" -> Arr(<<v>>)

ApplyValidate(validate, v) ==
    CASE validate = "isLetter" -> IsLetter(v)
      [] validate = "hasDigit" -> HasDigit(v)
      [] validate = "someDigits" -> Len(v.v[2].v) > 0
      [] validate = "always" -> TRUE
      [] validate = "never" -> FALSE

(***************************************************************************)
(* String(value), as the template literals of not and except apply it.     *)
(***************************************************************************)
RECURSIVE NatToString(_)
NatToString(n) ==
    LET d == CHOOSE c \in DecimalDigits : DigitValue(c) = n % 10
    IN  IF n < 10 THEN d ELSE NatToString(n \div 10) \o d

RECURSIVE ToString(_)
RECURSIVE JoinComma(_)
\* Array.prototype.join: null and undefined elements render as "".
JoinComma(vs) ==
    LET one(v) == IF v.k \in {"null", "undef"} THEN "" ELSE ToString(v)
    IN  IF vs = <<>> THEN ""
        ELSE IF Len(vs) = 1 THEN one(vs[1])
        ELSE one(vs[1]) \o "," \o JoinComma(Tail(vs))

ToString(v) ==
    CASE v.k = "str" -> Join(v.v)
      [] v.k = "arr" -> JoinComma(v.v)
      [] v.k = "num" -> IF v.v < 0 THEN "-" \o NatToString(-v.v) ELSE NatToString(v.v)
      [] v.k = "null" -> "null"
      [] v.k = "undef" -> "undefined"
      [] v.k = "nan" -> "NaN"

(***************************************************************************)
(* The closure bodies.  Run(p, input, index) applies a parser value.       *)
(***************************************************************************)
RECURSIVE Run(_, _, _)

\* c is a value: a string, or whatever else a caller passes (s[0] of '').
char(c, in, idx) ==
    IF CharAt(in, idx) = c
    THEN Ret(Success(c, idx + 1), <<>>, <<>>)
    ELSE Ret(Failure(<<"'" \o ToString(c) \o "'">>, idx), <<>>, <<>>)

string(s, in, idx) ==
    IF Slice(in, idx, idx + Len(s)) = s
    THEN Ret(Success(Str(s), idx + Len(s)), <<>>, <<>>)
    ELSE Ret(Failure(<<Quote(s)>>, idx), <<>>, <<>>)

succeed(value, in, idx) == Ret(Success(value, idx), <<>>, <<>>)

fail(expected, in, idx) == Ret(Failure(<<expected>>, idx), <<>>, <<>>)

\* alt with the bug of returning the collected errors as they are, without
\* removing repetitions.
RECURSIVE altLoop_noDedup(_, _, _, _, _, _)
altLoop_noDedup(parsers, k, errors, cs, in, idx) ==
    IF k > Len(parsers)
    THEN Ret(Failure(errors, idx), cs, <<>>)
    ELSE LET r == Run(parsers[k], in, idx).out
             cs2 == Append(cs, Call(parsers[k], idx))
         IN  IF ~Returns(r) THEN Ret(r, cs2, <<>>)
             ELSE IF r.success THEN Ret(r, cs2, <<>>)
             ELSE altLoop_noDedup(parsers, k + 1, errors \o r.expected, cs2, in, idx)

\* alt with the bug of not leaving the loop at the first success: the
\* remaining alternatives run too and the last success is returned.
RECURSIVE altLoop_noBreak(_, _, _, _, _, _)
altLoop_noBreak(parsers, k, errors, cs, in, idx) ==
    IF k > Len(parsers)
    THEN Ret(Failure(Dedup(errors), idx), cs, <<>>)
    ELSE LET r == Run(parsers[k], in, idx).out
             cs2 == Append(cs, Call(parsers[k], idx))
         IN  IF ~Returns(r) THEN Ret(r, cs2, <<>>)
             ELSE IF r.success
             THEN LET rest == altLoop_noBreak(parsers, k + 1, errors, cs2, in, idx)
                  IN  IF Returns(rest.out) /\ ~rest.out.success
                      THEN Ret(r, rest.calls, <<>>)
                      ELSE rest
             ELSE altLoop_noBreak(parsers, k + 1, errors \o r.expected, cs2, in, idx)

\* The for loop of alt, from its k-th parser on.
RECURSIVE altLoop(_, _, _, _, _, _)
altLoop(parsers, k, errors, cs, in, idx) ==
    IF k > Len(parsers)
    THEN Ret(Failure(Dedup(errors), idx), cs, <<>>)
    ELSE LET r == Run(parsers[k], in, idx).out
             cs2 == Append(cs, Call(parsers[k], idx))
         IN  IF ~Returns(r) THEN Ret(r, cs2, <<>>)
             ELSE IF r.success THEN Ret(r, cs2, <<>>)
             ELSE altLoop(parsers, k + 1, errors \o r.expected, cs2, in, idx)

alt(parsers, in, idx) == altLoop(parsers, 1, <<>>, <<>>, in, idx)

\* seq with the bug of reporting a member's failure at the index the member
\* was started from instead of the index the member reported.
RECURSIVE seqLoop_failsAtMemberStart(_, _, _, _, _, _)
seqLoop_failsAtMemberStart(parsers, k, values, currentIndex, cs, in) ==
    IF k > Len(parsers)
    THEN Ret(Success(Arr(values), currentIndex), cs, <<>>)
    ELSE LET r == Run(parsers[k], in, currentIndex).out
             cs2 == Append(cs, Call(parsers[k], currentIndex))
         IN  IF ~Returns(r) THEN Ret(r, cs2, <<>>)
             ELSE IF ~r.success THEN Ret(Failure(r.expected, currentIndex), cs2, <<>>)
             ELSE seqLoop_failsAtMemberStart(parsers, k + 1, Append(values, r.value),
                                             r.index, cs2, in)

\* The for loop of seq, from its k-th parser on.
RECURSIVE seqLoop(_, _, _, _, _, _)
seqLoop(parsers, k, values, currentIndex, cs, in) ==
    IF k > Len(parsers)
    THEN Ret(Success(Arr(values), currentIndex), cs, <<>>)
    ELSE LET r == Run(parsers[k], in, currentIndex).out
             cs2 == Append(cs, Call(parsers[k], currentIndex))
         IN  IF ~Returns(r) THEN Ret(r, cs2, <<>>)
             ELSE IF ~r.success THEN Ret(r, cs2, <<>>)
             ELSE seqLoop(parsers, k + 1, Append(values, r.value), r.index, cs2, in)

seq(parsers, in, idx) == seqLoop(parsers, 1, <<>>, idx, <<>>, in)

\* map with the bug of reporting a rejected value at the index p reached.
map_failsWhereParserStopped(p, fn, validate, in, idx) ==
    LET r == Run(p, in, idx).out
        cs == <<Call(p, idx)>>
    IN  IF ~Returns(r) THEN Ret(r, cs, <<>>)
        ELSE IF ~r.success THEN Ret(r, cs, <<>>)
        ELSE IF validate # NoValidate /\ ~ApplyValidate(validate, r.value)
        THEN Ret(Failure(<<"validated value">>, r.index), cs,
                 <<App(validate, r.value)>>)
        ELSE LET v == ApplyFn(fn, r.value)
                 ap == (IF validate # NoValidate
                        THEN <<App(validate, r.value)>> ELSE <<>>)
                       \o <<App(fn, r.value)>>
             IN  IF v = Thrown THEN Ret(Throws, cs, ap)
                 ELSE Ret(Success(v, r.index), cs, ap)

map(p, fn, validate, in, idx) ==
    LET r == Run(p, in, idx).out
        cs == <<Call(p, idx)>>
    IN  IF ~Returns(r) THEN Ret(r, cs, <<>>)
        ELSE IF ~r.success THEN Ret(r, cs, <<>>)
        ELSE IF validate # NoValidate /\ ~ApplyValidate(validate, r.value)
        THEN Ret(Failure(<<"validated value">>, idx), cs, <<App(validate, r.value)>>)
        ELSE LET v == ApplyFn(fn, r.value)
                 ap == (IF validate # NoValidate
                        THEN <<App(validate, r.value)>> ELSE <<>>)
                       \o <<App(fn, r.value)>>
             IN  IF v = Thrown THEN Ret(Throws, cs, ap)
                 ELSE Ret(Success(v, r.index), cs, ap)

\* The loops of many, many1 and until have no guard.  The parsers are pure,
\* so a success that brings a loop back to an index it was at repeats
\* forever.  At and after index length + 1 every body reads the same thing
\* (input[i] is undefined, input.slice(i) is ''), so a success that advances
\* from there is followed by the same success one step on, for ever.
Repeats(in, currentIndex, nextIndex, seen) ==
    \/ nextIndex \in seen
    \/ currentIndex > Len(in) /\ nextIndex > currentIndex

\* many with the bug of returning the index of the attempt that failed.
RECURSIVE manyLoop_countsFailedAttempt(_, _, _, _, _, _)
manyLoop_countsFailedAttempt(p, values, currentIndex, seen, cs, in) ==
    LET r == Run(p, in, currentIndex).out
        cs2 == Append(cs, Call(p, currentIndex))
    IN  IF ~Returns(r) THEN Ret(r, cs2, <<>>)
        ELSE IF ~r.success THEN Ret(Success(Arr(values), r.index), cs2, <<>>)
        ELSE IF Repeats(in, currentIndex, r.index, seen) THEN Ret(Diverges, cs2, <<>>)
        ELSE manyLoop_countsFailedAttempt(p, Append(values, r.value), r.index,
                                          seen \cup {r.index}, cs2, in)

\* The while loop of many.  The parsers are pure, so a success that brings
\* the loop back to an index it was at repeats forever: many never returns.
RECURSIVE manyLoop(_, _, _, _, _, _)
manyLoop(p, values, currentIndex, seen, cs, in) ==
    LET r == Run(p, in, currentIndex).out
        cs2 == Append(cs, Call(p, currentIndex))
    IN  IF ~Returns(r) THEN Ret(r, cs2, <<>>)
        ELSE IF ~r.success THEN Ret(Success(Arr(values), currentIndex), cs2, <<>>)
        ELSE IF Repeats(in, currentIndex, r.index, seen) THEN Ret(Diverges, cs2, <<>>)
        ELSE manyLoop(p, Append(values, r.value), r.index, seen \cup {r.index}, cs2, in)

many(p, in, idx) == manyLoop(p, <<>>, idx, {idx}, <<>>, in)

\* The while (true) loop of many1, after its first application.
RECURSIVE many1Loop(_, _, _, _, _, _)
many1Loop(p, values, currentIndex, seen, cs, in) ==
    LET r == Run(p, in, currentIndex).out
        cs2 == Append(cs, Call(p, currentIndex))
    IN  IF ~Returns(r) THEN Ret(r, cs2, <<>>)
        ELSE IF ~r.success THEN Ret(Success(Arr(values), currentIndex), cs2, <<>>)
        ELSE IF Repeats(in, currentIndex, r.index, seen) THEN Ret(Diverges, cs2, <<>>)
        ELSE many1Loop(p, Append(values, r.value), r.index, seen \cup {r.index}, cs2, in)

\* many1 with the bug of not keeping the value of the first application.
many1_dropsFirst(p, in, idx) ==
    LET firstResult == Run(p, in, idx).out
        cs == <<Call(p, idx)>>
    IN  IF ~Returns(firstResult) THEN Ret(firstResult, cs, <<>>)
        ELSE IF ~firstResult.success THEN Ret(firstResult, cs, <<>>)
        ELSE many1Loop(p, <<>>, firstResult.index, {firstResult.index}, cs, in)

many1(p, in, idx) ==
    LET firstResult == Run(p, in, idx).out
        cs == <<Call(p, idx)>>
    IN  IF ~Returns(firstResult) THEN Ret(firstResult, cs, <<>>)
        ELSE IF ~firstResult.success THEN Ret(firstResult, cs, <<>>)
        ELSE many1Loop(p, <<firstResult.value>>, firstResult.index,
                       {firstResult.index}, cs, in)

\* until with the bug of returning the index stop reached: the marker is
\* consumed.
RECURSIVE untilLoop_consumesStop(_, _, _, _, _, _, _)
untilLoop_consumesStop(stop, p, results, currentIndex, seen, cs, in) ==
    LET stopResult == Run(stop, in, currentIndex).out
        cs2 == Append(cs, Call(stop, currentIndex))
    IN  IF ~Returns(stopResult) THEN Ret(stopResult, cs2, <<>>)
        ELSE IF stopResult.success
        THEN Ret(Success(Arr(results), stopResult.index), cs2, <<>>)
        ELSE LET r == Run(p, in, currentIndex).out
                 cs3 == Append(cs2, Call(p, currentIndex))
             IN  IF ~Returns(r) THEN Ret(r, cs3, <<>>)
                 ELSE IF ~r.success THEN Ret(r, cs3, <<>>)
                 ELSE IF Repeats(in, currentIndex, r.index, seen) THEN Ret(Diverges, cs3, <<>>)
                 ELSE untilLoop_consumesStop(stop, p, Append(results, r.value), r.index,
                                             seen \cup {r.index}, cs3, in)

\* The while (true) loop of until.
RECURSIVE untilLoop(_, _, _, _, _, _, _)
untilLoop(stop, p, results, currentIndex, seen, cs, in) ==
    LET stopResult == Run(stop, in, currentIndex).out
        cs2 == Append(cs, Call(stop, currentIndex))
    IN  IF ~Returns(stopResult) THEN Ret(stopResult, cs2, <<>>)
        ELSE IF stopResult.success
        THEN Ret(Success(Arr(results), currentIndex), cs2, <<>>)
        ELSE LET r == Run(p, in, currentIndex).out
                 cs3 == Append(cs2, Call(p, currentIndex))
             IN  IF ~Returns(r) THEN Ret(r, cs3, <<>>)
                 ELSE IF ~r.success THEN Ret(r, cs3, <<>>)
                 ELSE IF Repeats(in, currentIndex, r.index, seen) THEN Ret(Diverges, cs3, <<>>)
                 ELSE untilLoop(stop, p, Append(results, r.value), r.index,
                                seen \cup {r.index}, cs3, in)

until(stop, p, in, idx) == untilLoop(stop, p, <<>>, idx, {idx}, <<>>, in)

\* not with the bug of failing at the index p reached.
not_failsWhereParserStopped(p, in, idx) ==
    LET r == Run(p, in, idx).out
        cs == <<Call(p, idx)>>
    IN  IF ~Returns(r) THEN Ret(r, cs, <<>>)
        ELSE IF r.success
        THEN Ret(Failure(<<"not '" \o ToString(r.value) \o "'">>, r.index), cs, <<>>)
        ELSE Ret(Success(Null, idx), cs, <<>>)

not(p, in, idx) ==
    LET r == Run(p, in, idx).out
        cs == <<Call(p, idx)>>
    IN  IF ~Returns(r) THEN Ret(r, cs, <<>>)
        ELSE IF r.success
        THEN Ret(Failure(<<"not '" \o ToString(r.value) \o "'">>, idx), cs, <<>>)
        ELSE Ret(Success(Null, idx), cs, <<>>)

\* except with the bug of running p before looking at the exclusion's result.
except_runsParserFirst(exclusion, p, in, idx) ==
    LET r == Run(p, in, idx).out
        excludeResult == Run(exclusion, in, idx).out
        cs == <<Call(p, idx), Call(exclusion, idx)>>
    IN  IF ~Returns(r) THEN Ret(r, <<Call(p, idx)>>, <<>>)
        ELSE IF ~Returns(excludeResult) THEN Ret(excludeResult, cs, <<>>)
        ELSE IF excludeResult.success
        THEN Ret(Failure(<<"not '" \o ToString(excludeResult.value) \o "'">>, idx),
                 cs, <<>>)
        ELSE Ret(r, cs, <<>>)

except(exclusion, p, in, idx) ==
    LET excludeResult == Run(exclusion, in, idx).out
        cs == <<Call(exclusion, idx)>>
    IN  IF ~Returns(excludeResult) THEN Ret(excludeResult, cs, <<>>)
        ELSE IF excludeResult.success
        THEN Ret(Failure(<<"not '" \o ToString(excludeResult.value) \o "'">>, idx),
                 cs, <<>>)
        ELSE Ret(Run(p, in, idx).out, Append(cs, Call(p, idx)), <<>>)

anyChar(in, idx) ==
    IF idx < Len(in)
    THEN Ret(Success(CharAt(in, idx), idx + 1), <<>>, <<>>)
    ELSE Ret(Failure(<<"any character">>, idx), <<>>, <<>>)

whitespace(in, idx) ==
    LET ch == CharAt(in, idx)
    IN  IF ch.k = "str" /\ ch.v[1] \in FourSpaces
        THEN Ret(Success(ch, idx + 1), <<>>, <<>>)
        ELSE Ret(Failure(<<"whitespace">>, idx), <<>>, <<>>)

\* The while loop of whitespaces.
RECURSIVE whitespacesLoop(_, _)
whitespacesLoop(in, currentIndex) ==
    IF currentIndex < Len(in) /\ CharAt(in, currentIndex).k = "str"
       /\ CharAt(in, currentIndex).v[1] \in RegexSpaces
    THEN whitespacesLoop(in, currentIndex + 1)
    ELSE currentIndex

whitespaces(in, idx) == Ret(Success(Undefined, whitespacesLoop(in, idx)), <<>>, <<>>)

\* A callback of andThen maps the previous value to the next parser.
\* These are the callbacks of tests/parser.test.ts.
Repeat(c, n) == [k \in 1..n |-> c]

ApplyCont(fn, v) ==
    CASE fn = "underscores" -> StringP(Repeat("_", v.v))
      [] fn = "manyFirstChar" ->
            ManyP(CharP(IF v.v = <<>> THEN Undefined ELSE Str(<<v.v[1]>>)))
      [] fn = "thenOne" -> CharP(Str(<<"1">>))
      [] fn = "thenAny" -> AnyCharP

\* andThen with the bug of reporting currentParser's failure at the index
\* the step was started from.
andThenStep_failsAtStart(currentParser, fn, in, idx) ==
    LET r == Run(currentParser, in, idx).out
        cs == <<Call(currentParser, idx)>>
    IN  IF ~Returns(r) THEN Ret(r, cs, <<>>)
        ELSE IF ~r.success THEN Ret(Failure(r.expected, idx), cs, <<>>)
        ELSE LET next == ApplyCont(fn, r.value)
             IN  Ret(Run(next, in, r.index).out,
                     Append(cs, Call(next, r.index)), <<App(fn, r.value)>>)

\* One closure of the reduce of andThen: currentParser, then fn's parser.
andThenStep(currentParser, fn, in, idx) ==
    LET r == Run(currentParser, in, idx).out
        cs == <<Call(currentParser, idx)>>
    IN  IF ~Returns(r) THEN Ret(r, cs, <<>>)
        ELSE IF ~r.success THEN Ret(r, cs, <<>>)
        ELSE LET next == ApplyCont(fn, r.value)
             IN  Ret(Run(next, in, r.index).out,
                     Append(cs, Call(next, r.index)), <<App(fn, r.value)>>)

recoverWith(p, expected, in, idx) ==
    LET r == Run(p, in, idx).out
        cs == <<Call(p, idx)>>
    IN  IF ~Returns(r) THEN Ret(r, cs, <<>>)
        ELSE IF r.success THEN Ret(r, cs, <<>>)
        ELSE Ret(Failure(expected, r.index), cs, <<>>)

\* peek with the bug of resetting the index to 0, the default start index.
peek_resetsToZero(p, in, idx) ==
    LET r == Run(p, in, idx).out
        cs == <<Call(p, idx)>>
    IN  IF ~Returns(r) THEN Ret(r, cs, <<>>)
        ELSE IF r.success THEN Ret(Success(r.value, 0), cs, <<>>)
        ELSE Ret(r, cs, <<>>)

peek(p, in, idx) ==
    LET r == Run(p, in, idx).out
        cs == <<Call(p, idx)>>
    IN  IF ~Returns(r) THEN Ret(r, cs, <<>>)
        ELSE IF r.success THEN Ret(Success(r.value, idx), cs, <<>>)
        ELSE Ret(r, cs, <<>>)

eof(p, in, idx) ==
    LET r == Run(p, in, idx).out
        cs == <<Call(p, idx)>>
    IN  IF ~Returns(r) THEN Ret(r, cs, <<>>)
        ELSE IF ~r.success THEN Ret(r, cs, <<>>)
        ELSE IF r.index = Len(in) THEN Ret(r, cs, <<>>)
        ELSE Ret(Failure(<<"end of input">>, r.index), cs, <<>>)

Run(p, in, idx) ==
    CASE p.op = "char" -> char(p.c, in, idx)
      [] p.op = "string" -> string(p.s, in, idx)
      [] p.op = "succeed" -> succeed(p.v, in, idx)
      [] p.op = "fail" -> fail(p.e, in, idx)
      [] p.op = "alt" -> alt(p.ps, in, idx)
      [] p.op = "seq" -> seq(p.ps, in, idx)
      [] p.op = "map" -> map(p.p, p.fn, p.validate, in, idx)
      [] p.op = "many" -> many(p.p, in, idx)
      [] p.op = "many1" -> many1(p.p, in, idx)
      [] p.op = "until" -> until(p.stop, p.p, in, idx)
      [] p.op = "not" -> not(p.p, in, idx)
      [] p.op = "except" -> except(p.exclusion, p.p, in, idx)
      [] p.op = "anyChar" -> anyChar(in, idx)
      [] p.op = "whitespace" -> whitespace(in, idx)
      [] p.op = "whitespaces" -> whitespaces(in, idx)
      [] p.op = "andThen" -> andThenStep(p.p, p.fn, in, idx)
      [] p.op = "recoverWith" -> recoverWith(p.p, p.expected, in, idx)
      [] p.op = "peek" -> peek(p.p, in, idx)
      [] p.op = "eof" -> eof(p.p, in, idx)

(***************************************************************************)
(* The combinators that only compose others.                               *)
(***************************************************************************)
optional(p) == AltP(<<p, SucceedP(Undefined)>>)

between(left, right, p) == MapP(SeqP(<<left, p, right>>), "betweenFn", NoValidate)

after(prefix, p) == MapP(SeqP(<<prefix, p>>), "afterFn", NoValidate)

letter == MapP(AnyCharP, "letterFn", "isLetter")

digit == MapP(AnyCharP, "digitFn", "hasDigit")

integer ==
    MapP(SeqP(<<optional(AltP(<<CharP(Str(<<"-">>)), CharP(Str(<<"+">>))>>)),
                Many1P(digit)>>),
         "integerFn", "someDigits")

\* sepBy with the bug of taking a separator that no item follows.
sepBy_takesTrailingSeparator(separator, item) ==
    MapP(SeqP(<<item, ManyP(SeqP(<<separator, item>>)), optional(separator)>>),
         "sepByFn", NoValidate)

sepBy(separator, item) ==
    MapP(SeqP(<<item, ManyP(SeqP(<<separator, item>>))>>), "sepByFn", NoValidate)

token(p) == MapP(SeqP(<<p, WhitespacesP>>), "tokenFn", NoValidate)

\* fns.reduce(step, parser)
RECURSIVE andThen(_, _)
andThen(p, fns) ==
    IF fns = <<>> THEN p
    ELSE AndThenStepP(andThen(p, SubSeq(fns, 1, Len(fns) - 1)), fns[Len(fns)])

(***************************************************************************)
(* The arguments the calls are made with.                                  *)
(***************************************************************************)
Lists(S, n) == UNION {[1..k -> S] : k \in 0..n}

charA == CharP(Str(<<"a">>))
char1 == CharP(Str(<<"1">>))
charSpace == CharP(Str(<<" ">>))
\* char(s[0]) of an empty s, as the callback s => many(char(s[0])) builds it
charUndefined == CharP(Undefined)

\* Alternatives: failures reported at the start and deeper, equal and
\* different expectations, one or several expectations.
AltMembers ==
    {charA, char1, StringP(<<"a">>), SeqP(<<charA, char1>>),
     AltP(<<char1, charSpace>>)}

\* Sequence members: consuming and zero-width successes, failures reported
\* at the member's start and deeper.
SeqMembers ==
    {charA, char1, AnyCharP, optional(charA), SeqP(<<charA, char1>>)}

\* Arguments of the combinators that take one parser.
Subs ==
    {charA, StringP(<<"a", "1">>), StringP(<<>>), AnyCharP,
     SeqP(<<charA, char1>>), AltP(<<charA, char1>>), AltP(<<>>),
     optional(charA), letter, digit, WhitespacesP, ManyP(charA),
     NotP(charA), FailP("nothing"), charUndefined}

\* Arguments of the combinators that take two or three parsers.
Pairs == {charA, char1, AnyCharP, StringP(<<"a", "1">>), letter}

StringArgs == {<<>>, <<"a">>, <<"a", "1">>, <<"1", "a", " ">>}
Fns == {"toArray"}
Validates == {NoValidate, "always", "never"}
ContLists == {<<>>, <<"thenAny">>, <<"thenOne", "thenAny">>, <<"thenAny", "thenOne">>}
Expectations == {<<>>, <<"something">>, <<"this", "that">>}

(***************************************************************************)
(* Spec: one action per exported combinator, applying a parser it built.   *)
(***************************************************************************)
Idle == [abnormal |-> "idle"]
NoParser == [op |-> "none"]

\* The parser objects handed to memoize: objects 1 and 2 are two calls of
\* char('a'), equal in structure and distinct in identity.
Wrapped == <<charA, charA, AnyCharP>>
Objects == DOMAIN Wrapped
\* The wrappers memoize returned, each with the object it closed over:
\* wrappers 1 and 2 come from two memoize calls on object 1.
Wraps == <<1, 1, 2, 3>>
Wrappers == DOMAIN Wraps

MemoInputs == Texts({"a"}, MemoLen)
MemoIndexes == 0..MemoLen

\* new WeakMap()
NoMemo == <<>>
NeverInvoked == [o \in Objects |-> [i \in MemoIndexes |-> 0]]
NoOrigin == [o \in Objects |-> <<>>]

\* No call has been made; the caller holds an input and a start index.
Init ==
    /\ parser = NoParser
    /\ input \in Inputs
    /\ index \in Indexes(input)
    /\ result = Idle
    /\ calls = <<>>
    /\ applied = <<>>
    /\ memo = NoMemo
    /\ invoked = NeverInvoked
    /\ origin = NoOrigin
    /\ filledBy = NoOrigin
    /\ hits = 0
    /\ wrapper = 0

\* p(input, index): the caller's call of a parser of the library.
Apply(p) ==
    LET r == Run(p, input, index)
    IN  /\ result = Idle
        /\ parser' = p
        /\ UNCHANGED <<input, index>>
        /\ result' = r.out
        /\ calls' = r.calls
        /\ applied' = r.applied
        /\ UNCHANGED <<memo, invoked, origin, filledBy, hits, wrapper>>

\* The parsers each action applies: the combinator called with each of its
\* arguments.
CharParsers == {CharP(Str(<<c>>)) : c \in Alphabet}
StringParsers == {StringP(t) : t \in StringArgs}
SucceedParsers == {SucceedP(Num(42))}
FailParsers == {FailP("number")}
AltParsers == {AltP(ps) : ps \in Lists(AltMembers, MaxArity)}
SeqParsers == {SeqP(ps) : ps \in Lists(SeqMembers, MaxArity)}
MapParsers == {MapP(p, fn, v) : p \in Subs, fn \in Fns, v \in Validates}
ManyParsers == {ManyP(p) : p \in Subs}
Many1Parsers == {Many1P(p) : p \in Subs}
OptionalParsers == {optional(p) : p \in Subs}
BetweenParsers == {between(l, r, p) : l \in {charA, char1}, r \in {charA, char1}, p \in Pairs}
AfterParsers == {after(pre, p) : pre \in Pairs, p \in Pairs}
UntilParsers == {UntilP(stop, p) : stop \in Pairs, p \in Pairs}
NotParsers == {NotP(p) : p \in Subs}
ExceptParsers == {ExceptP(ex, p) : ex \in Pairs, p \in Pairs}
SepByParsers == {sepBy(sep, item) : sep \in Pairs, item \in Pairs}
TokenParsers == {token(p) : p \in Subs}
AndThenParsers == {andThen(p, fns) : p \in Pairs, fns \in ContLists}
RecoverWithParsers == {RecoverWithP(p, e) : p \in Subs, e \in Expectations}
PeekParsers == {PeekP(p) : p \in Subs}
EofParsers == {EofP(p) : p \in Subs}

CallChar == \E p \in CharParsers : Apply(p)
CallString == \E p \in StringParsers : Apply(p)
CallSucceed == \E p \in SucceedParsers : Apply(p)
CallFail == \E p \in FailParsers : Apply(p)
CallAlt == \E p \in AltParsers : Apply(p)
CallSeq == \E p \in SeqParsers : Apply(p)
CallMap == \E p \in MapParsers : Apply(p)
CallMany == \E p \in ManyParsers : Apply(p)
CallMany1 == \E p \in Many1Parsers : Apply(p)
CallOptional == \E p \in OptionalParsers : Apply(p)
CallBetween == \E p \in BetweenParsers : Apply(p)
CallAfter == \E p \in AfterParsers : Apply(p)
CallUntil == \E p \in UntilParsers : Apply(p)
CallNot == \E p \in NotParsers : Apply(p)
CallExcept == \E p \in ExceptParsers : Apply(p)
CallAnyChar == \E p \in {AnyCharP} : Apply(p)
CallWhitespace == \E p \in {WhitespaceP} : Apply(p)
CallWhitespaces == \E p \in {WhitespacesP} : Apply(p)
CallLetter == \E p \in {letter} : Apply(p)
CallDigit == \E p \in {digit} : Apply(p)
CallInteger == \E p \in {integer} : Apply(p)
CallSepBy == \E p \in SepByParsers : Apply(p)
CallToken == \E p \in TokenParsers : Apply(p)
CallAndThen == \E p \in AndThenParsers : Apply(p)
CallRecoverWith == \E p \in RecoverWithParsers : Apply(p)
CallPeek == \E p \in PeekParsers : Apply(p)
CallEof == \E p \in EofParsers : Apply(p)

Next ==
    \/ CallChar \/ CallString \/ CallSucceed \/ CallFail
    \/ CallAlt \/ CallSeq \/ CallMap \/ CallMany \/ CallMany1 \/ CallOptional
    \/ CallBetween \/ CallAfter \/ CallUntil \/ CallNot \/ CallExcept
    \/ CallAnyChar \/ CallWhitespace \/ CallWhitespaces
    \/ CallLetter \/ CallDigit \/ CallInteger
    \/ CallSepBy \/ CallToken \/ CallAndThen
    \/ CallRecoverWith \/ CallPeek \/ CallEof

Spec == Init /\ [][Next]_vars

(***************************************************************************)
(* MemoSpec: calls of the wrappers memoize returned, on any input and at   *)
(* any index, in any order.                                                *)
(***************************************************************************)
MemoInit ==
    /\ parser = NoParser
    /\ input = <<>>
    /\ index = 0
    /\ result = Idle
    /\ calls = <<>>
    /\ applied = <<>>
    /\ memo = NoMemo
    /\ invoked = NeverInvoked
    /\ origin = NoOrigin
    /\ filledBy = NoOrigin
    /\ hits = 0
    /\ wrapper = 0

\* map.set(key, value) on a Map or WeakMap held as a function.
MapSet(m, key, value) ==
    [x \in DOMAIN m \cup {key} |-> IF x = key THEN value ELSE m[x]]

\* memoize changed to key the table by the parser's structure: two parser
\* objects built alike share one Map.
memoize_keyedByStructure(obj, in, idx) ==
    LET key == CHOOSE o \in Objects :
                   /\ Wrapped[o] = Wrapped[obj]
                   /\ \A o2 \in Objects : Wrapped[o2] = Wrapped[obj] => o <= o2
        memo1 == IF key \notin DOMAIN memo THEN MapSet(memo, key, <<>>) ELSE memo
        cache == memo1[key]
    IN  IF idx \in DOMAIN cache
        THEN [out |-> cache[idx], memo |-> memo1, ran |-> FALSE]
        ELSE LET r == Run(Wrapped[obj], in, idx).out
             IN  IF ~Returns(r)
                 THEN [out |-> r, memo |-> memo1, ran |-> TRUE]
                 ELSE [out |-> r, memo |-> MapSet(memo1, key, MapSet(cache, idx, r)),
                       ran |-> TRUE]

memoize_forgetsFailures(obj, in, idx) ==
    LET memo1 == IF obj \notin DOMAIN memo THEN MapSet(memo, obj, <<>>) ELSE memo
        cache == memo1[obj]
    IN  IF idx \in DOMAIN cache /\ cache[idx].success
        THEN [out |-> cache[idx], memo |-> memo1, ran |-> FALSE]
        ELSE LET r == Run(Wrapped[obj], in, idx).out
             IN  IF ~Returns(r)
                 THEN [out |-> r, memo |-> memo1, ran |-> TRUE]
                 ELSE [out |-> r, memo |-> MapSet(memo1, obj, MapSet(cache, idx, r)),
                       ran |-> TRUE]

\* memoize changed to key the cache by the input as well: an entry computed
\* for another input is not used.
memoize_keyedByInput(obj, in, idx) ==
    LET memo1 == IF obj \notin DOMAIN memo THEN MapSet(memo, obj, <<>>) ELSE memo
        cache == memo1[obj]
    IN  IF idx \in DOMAIN cache /\ origin[obj][idx] = in
        THEN [out |-> cache[idx], memo |-> memo1, ran |-> FALSE]
        ELSE LET r == Run(Wrapped[obj], in, idx).out
             IN  IF ~Returns(r)
                 THEN [out |-> r, memo |-> memo1, ran |-> TRUE]
                 ELSE [out |-> r, memo |-> MapSet(memo1, obj, MapSet(cache, idx, r)),
                       ran |-> TRUE]

\* The closure memoize returns, closed over parser object obj, applied to
\* (in, idx): the outcome, the cache afterwards, whether the object ran.
memoize(obj, in, idx) ==
    LET memo1 == IF obj \notin DOMAIN memo THEN MapSet(memo, obj, <<>>) ELSE memo
        cache == memo1[obj]
    IN  IF idx \in DOMAIN cache
        THEN [out |-> cache[idx], memo |-> memo1, ran |-> FALSE]
        ELSE LET r == Run(Wrapped[obj], in, idx).out
             IN  IF ~Returns(r)
                 THEN [out |-> r, memo |-> memo1, ran |-> TRUE]
                 ELSE [out |-> r, memo |-> MapSet(memo1, obj, MapSet(cache, idx, r)),
                       ran |-> TRUE]

\* One call w(s, i) of a wrapper.  A call that does not return ends the run.
CallMemoized ==
    \E w \in Wrappers, s \in MemoInputs, i \in MemoIndexes :
        LET obj == Wraps[w]
            m == memoize(obj, s, i)
        IN  /\ hits < MaxCalls
            /\ result = Idle \/ Returns(result)
            /\ wrapper' = w
            /\ parser' = Wrapped[obj]
            /\ input' = s
            /\ index' = i
            /\ result' = m.out
            /\ memo' = m.memo
            /\ calls' = IF m.ran THEN <<Call(Wrapped[obj], i)>> ELSE <<>>
            /\ invoked' = IF m.ran
                          THEN [invoked EXCEPT ![obj][i] = @ + 1]
                          ELSE invoked
            /\ origin' = IF m.ran /\ Returns(m.out)
                         THEN [origin EXCEPT ![obj] = MapSet(@, i, s)]
                         ELSE origin
            /\ filledBy' = IF m.ran /\ Returns(m.out)
                           THEN [filledBy EXCEPT ![obj] = MapSet(@, i, w)]
                           ELSE filledBy
            /\ hits' = hits + 1
            /\ applied' = <<>>

MemoNext == CallMemoized

MemoSpec == MemoInit /\ [][MemoNext]_vars

(***************************************************************************)
(* Properties of Spec.  After a call the state holds the parser applied,   *)
(* its input and start index, the outcome, and what its body invoked.      *)
(***************************************************************************)
Called == parser # NoParser
Outcome(p, at) == Run(p, input, at).out
Fails(p, at) == Returns(Outcome(p, at)) /\ ~Outcome(p, at).success
Succeeds(p, at) == Returns(Outcome(p, at)) /\ Outcome(p, at).success

\* C1: no backward motion.  A Success of any parser of the library carries
\* a position that is not before the start index of the call.
C1_NoBackwardMotion ==
    (Called /\ Returns(result) /\ result.success) => result.index >= index

\* C1 witness: peek at a positive index over a parser that advanced.
C1_Witness ==
    /\ parser.op = "peek" /\ index > 0
    /\ Returns(result) /\ result.success /\ result.index = index
    /\ Outcome(parser.p, index).index > index

\* C2: every Failure carries at least one expectation.
C2_FailureHasExpectations ==
    (Called /\ Returns(result) /\ ~result.success) => result.expected # <<>>

\* The expectations of the failing alternatives ps[k..], concatenated.
RECURSIVE ExpectedFrom(_, _)
ExpectedFrom(ps, k) ==
    IF k > Len(ps) THEN <<>>
    ELSE Outcome(ps[k], index).expected \o ExpectedFrom(ps, k + 1)

FirstSeen(all, x) ==
    CHOOSE k \in 1..Len(all) : all[k] = x /\ \A j \in 1..(k - 1) : all[j] # x

\* es lists each member of all once, ordered by first occurrence in all.
IsFirstSeenUnion(es, all) ==
    /\ {es[k] : k \in DOMAIN es} = {all[k] : k \in DOMAIN all}
    /\ \A i, j \in DOMAIN es :
          i < j => es[i] # es[j] /\ FirstSeen(all, es[i]) < FirstSeen(all, es[j])

AllAlternativesFail ==
    parser.op = "alt" /\ \A k \in 1..Len(parser.ps) : Fails(parser.ps[k], index)

\* C3: alternation completeness.  When every alternative fails at the start
\* index, alt fails at exactly that index and its expectations are those of
\* all alternatives, each once, in first-seen order.
C3_AltCompleteness ==
    AllAlternativesFail =>
        /\ Returns(result) /\ ~result.success
        /\ result.index = index
        /\ IsFirstSeenUnion(result.expected, ExpectedFrom(parser.ps, 1))

\* C3 witness: an alternative failed deeper than the start index, and a
\* repeated expectation was dropped from a list of at least two.
C3_Witness ==
    /\ AllAlternativesFail
    /\ \E k \in 1..Len(parser.ps) : Outcome(parser.ps[k], index).index > index
    /\ Len(result.expected) >= 2
    /\ Len(ExpectedFrom(parser.ps, 1)) > Len(result.expected)

\* C4: ordered choice.  alt invokes its alternatives in order, all at the
\* start index, up to the first that succeeds and no further; it returns
\* that alternative's Success unchanged, which holds no expectations.
C4_OrderedChoice ==
    (parser.op = "alt" /\ Returns(result)) =>
        LET n == Len(calls)
        IN  /\ n <= Len(parser.ps)
            /\ \A k \in 1..n : calls[k] = Call(parser.ps[k], index)
            /\ \A k \in 1..(n - 1) : Fails(parser.ps[k], index)
            /\ result.success =>
                  /\ n >= 1
                  /\ Succeeds(parser.ps[n], index)
                  /\ result = Outcome(parser.ps[n], index)
                  /\ DOMAIN result = {"success", "value", "index"}
            /\ ~result.success => n = Len(parser.ps)

\* C4 witness: the first alternative succeeded and the second, which would
\* have succeeded too, was not invoked.
C4_Witness ==
    /\ parser.op = "alt" /\ Len(parser.ps) = 2
    /\ Returns(result) /\ result.success
    /\ Len(calls) = 1
    /\ Succeeds(parser.ps[2], index)
    /\ Outcome(parser.ps[2], index) # result

\* C5: sequence short-circuit.  seq runs its members in order, each from
\* the index the one before returned; at the first that fails it returns
\* that member's Failure as it is and invokes no later member.
C5_SeqShortCircuit ==
    (parser.op = "seq" /\ Returns(result)) =>
        LET n == Len(calls)
        IN  /\ n <= Len(parser.ps)
            /\ \A k \in 1..n : calls[k].p = parser.ps[k]
            /\ n >= 1 => calls[1].at = index
            /\ \A k \in 1..(n - 1) :
                  /\ Succeeds(calls[k].p, calls[k].at)
                  /\ calls[k + 1].at = Outcome(calls[k].p, calls[k].at).index
            /\ ~result.success =>
                  /\ n >= 1
                  /\ Fails(calls[n].p, calls[n].at)
                  /\ result = Outcome(calls[n].p, calls[n].at)
            /\ result.success => n = Len(parser.ps)

\* C5 witness: the first of two members failed deeper than the start index;
\* the second was not invoked and the failure kept its own position.
C5_Witness ==
    /\ parser.op = "seq" /\ Len(parser.ps) = 2
    /\ Returns(result) /\ ~result.success
    /\ Len(calls) = 1
    /\ result.index > index

\* C8: many totality.  When many returns it returns a Success: its value
\* lists the values of the consecutive successes of p from the start index,
\* its position is where the last of them ended, and the attempt that
\* failed adds nothing to either.
C8_ManyTotality ==
    (parser.op = "many" /\ Returns(result)) =>
        /\ result.success
        /\ result.value.k = "arr"
        /\ LET n == Len(result.value.v)
           IN  /\ Len(calls) = n + 1
               /\ calls[1].at = index
               /\ \A k \in 1..(n + 1) : calls[k].p = parser.p
               /\ \A k \in 1..n :
                     /\ Succeeds(parser.p, calls[k].at)
                     /\ Outcome(parser.p, calls[k].at).value = result.value.v[k]
                     /\ Outcome(parser.p, calls[k].at).index = calls[k + 1].at
               /\ Fails(parser.p, calls[n + 1].at)
               /\ result.index = calls[n + 1].at

\* C8 witness: after at least one success, the attempt that failed had
\* consumed input before failing.
C8_Witness ==
    /\ parser.op = "many" /\ Returns(result)
    /\ Len(result.value.v) >= 1
    /\ Outcome(parser.p, result.index).index > result.index

C10_MapContract ==
    (parser.op = "map" /\ Returns(Outcome(parser.p, index))) =>
        LET r == Outcome(parser.p, index)
        IN  IF ~r.success THEN result = r
            ELSE IF parser.validate # NoValidate
                    /\ ~ApplyValidate(parser.validate, r.value)
            THEN /\ result = Failure(<<"validated value">>, index)
                 /\ \A k \in DOMAIN applied : applied[k].f # parser.fn
            ELSE /\ result = Success(ApplyFn(parser.fn, r.value), r.index)
                 /\ applied[Len(applied)] = App(parser.fn, r.value)

\* C10 witness: validate rejected a value p had consumed input for.
C10_Witness ==
    /\ parser.op = "map" /\ parser.validate # NoValidate
    /\ Succeeds(parser.p, index)
    /\ Outcome(parser.p, index).index > index
    /\ Returns(result) /\ ~result.success /\ result.index = index

\* The character at the start index, when there is one.
AtNonDigit == index < Len(input) /\ input[index + 1] \notin DecimalDigits
AtNonLetter == index < Len(input) /\ input[index + 1] \notin AsciiLetters

\* C12: class recognizers report a class-specific expectation.  digit() at
\* a character that is not a decimal digit fails with exactly ['digit'] at
\* the start index, and so does integer(); letter() at a character that is
\* not a letter fails with an expectation naming the letter class.
C12_ClassExpectation ==
    /\ (parser \in {digit, integer} /\ AtNonDigit) =>
           result = Failure(<<"digit">>, index)
    /\ (parser = letter /\ AtNonLetter) =>
           result = Failure(<<"letter">>, index)

\* The parser and the continuation functions a chain was built from.
RECURSIVE ChainBase(_)
ChainBase(p) == IF p.op = "andThen" THEN ChainBase(p.p) ELSE p

RECURSIVE ChainFns(_)
ChainFns(p) == IF p.op = "andThen" THEN Append(ChainFns(p.p), p.fn) ELSE <<>>

\* Every continuation application a chain made, over all of its steps.
RECURSIVE Applications(_, _, _)
Applications(p, in, idx) ==
    IF p.op = "andThen"
    THEN Applications(p.p, in, idx) \o Run(p, in, idx).applied
    ELSE <<>>

\* What the chain is said to do from the outcome r of its step k - 1 on:
\* stop at a failure, otherwise run the parser fns[k] makes of r's value
\* from r's index.  `called` lists the applications made.
RECURSIVE Follow(_, _, _, _, _)
Follow(r, fns, k, called, in) ==
    IF ~Returns(r) \/ k > Len(fns) THEN [out |-> r, called |-> called]
    ELSE IF ~r.success THEN [out |-> r, called |-> called]
    ELSE Follow(Run(ApplyCont(fns[k], r.value), in, r.index).out, fns, k + 1,
                Append(called, App(fns[k], r.value)), in)

\* C13: andThen short-circuit.  The chain returns the Failure of the first
\* step that fails, as it is, and applies no continuation after it; when
\* no step fails it returns the last step's outcome; with no continuation
\* andThen(p) returns what p returns.
C13_AndThenShortCircuit ==
    /\ parser.op = "andThen" =>
          LET e == Follow(Run(ChainBase(parser), input, index).out,
                          ChainFns(parser), 1, <<>>, input)
          IN  /\ result = e.out
              /\ Applications(parser, input, index) = e.called
    /\ \A p \in Pairs :
          Run(andThen(p, <<>>), input, index).out = Run(p, input, index).out

\* C13 witness: the second step of a chain of three failed after the first
\* had advanced; the chain returned that failure at its own index and the
\* last continuation was not applied.
C13_Witness ==
    /\ parser.op = "andThen" /\ Len(ChainFns(parser)) = 2
    /\ Returns(result) /\ ~result.success
    /\ result.index > index
    /\ Len(Applications(parser, input, index)) = 1
    /\ applied = <<>>

\* C14: lookahead non-consumption.  peek(p) and not(p) never advance.
\* When p succeeds, peek succeeds with p's value at the start index and not
\* fails there with "not '<value>'"; when p fails, not succeeds with null
\* at the start index and peek returns p's Failure as it is.
C14_Lookahead ==
    /\ (parser.op = "peek" /\ Returns(result)) =>
          /\ result.success => result.index = index
          /\ Succeeds(parser.p, index) =>
                result = Success(Outcome(parser.p, index).value, index)
          /\ Fails(parser.p, index) => result = Outcome(parser.p, index)
    /\ (parser.op = "not" /\ Returns(result)) =>
          /\ result.index = index
          /\ Succeeds(parser.p, index) =>
                result = Failure(<<"not '" \o ToString(Outcome(parser.p, index).value)
                                   \o "'">>, index)
          /\ Fails(parser.p, index) => result = Success(Null, index)

\* C14 witness: not(p) failed at the start index although p had consumed
\* input there.
C14_Witness ==
    /\ parser.op = "not" /\ index < Len(input)
    /\ Succeeds(parser.p, index) /\ Outcome(parser.p, index).index > index
    /\ Returns(result) /\ ~result.success /\ result.index = index

RECURSIVE ValuesOfCalls(_, _)
ValuesOfCalls(cs, k) ==
    IF k > Len(cs) THEN <<>>
    ELSE <<Outcome(cs[k].p, cs[k].at).value>> \o ValuesOfCalls(cs, k + 2)

IsSepBy(p) == p.op = "map" /\ p.fn = "sepByFn"
ItemOf(p) == p.p.ps[1]
SeparatorOf(p) == p.p.ps[2].p.ps[1]

\* The maximal run (separator item)* from index j on, after the items whose
\* values are given: its values and the end of its last item.
RECURSIVE SepRun(_, _, _, _)
SepRun(separator, item, values, j) ==
    IF Succeeds(separator, j) /\ Succeeds(item, Outcome(separator, j).index)
    THEN LET r == Outcome(item, Outcome(separator, j).index)
         IN  SepRun(separator, item, Append(values, r.value), r.index)
    ELSE Success(Arr(values), j)

\* C17: sepBy.  When item fails at the start index sepBy returns item's
\* Failure; otherwise it succeeds with the item values of the maximal run
\* item (separator item)*, in order, at the end of the last item matched:
\* a separator no item follows is not consumed.
C17_SepBy ==
    (IsSepBy(parser) /\ Returns(result)) =>
        /\ Fails(ItemOf(parser), index) => result = Outcome(ItemOf(parser), index)
        /\ Succeeds(ItemOf(parser), index) =>
              LET first == Outcome(ItemOf(parser), index)
              IN  result = SepRun(SeparatorOf(parser), ItemOf(parser),
                                  <<first.value>>, first.index)

\* C17 witness: after the last item matched comes a separator that no item
\* follows; sepBy stopped before it.
C17_Witness ==
    /\ IsSepBy(parser)
    /\ Returns(result) /\ result.success
    /\ Succeeds(SeparatorOf(parser), result.index)
    /\ Outcome(SeparatorOf(parser), result.index).index > result.index

\* p returns wherever it is applied and every success of p advances.  Past
\* index length + 1 every parser repeats what it does there, one step on.
Progresses(p) ==
    \A j \in 0..(Len(input) + 2) :
        /\ Returns(Outcome(p, j))
        /\ Outcome(p, j).success => Outcome(p, j).index > j

AlwaysReturns(p) == \A j \in 0..(Len(input) + 2) : Returns(Outcome(p, j))

\* C18: termination under progress.  many(p), many1(p) and until(stop)(p)
\* return on every input and start index when p and stop return and every
\* success of p advances the position.
C18_TerminationUnderProgress ==
    /\ (parser.op \in {"many", "many1"} /\ Progresses(parser.p)) => Returns(result)
    /\ (parser.op = "until" /\ Progresses(parser.p) /\ AlwaysReturns(parser.stop)) =>
          Returns(result)

\* The loops have no guard: a p that many applied where it succeeds
\* without advancing makes many run forever.
ManyHasNoGuard ==
    /\ (parser.op = "many" /\ \E j \in 0..(Len(input) + 2) :
            /\ Call(parser.p, j) \in {calls[k] : k \in DOMAIN calls}
            /\ Succeeds(parser.p, j) /\ Outcome(parser.p, j).index = j) =>
          result = Diverges

\* C19: positions stay inside the input.  From a start index between 0 and
\* the length of the input, a Success and a Failure carry an index between
\* the start index and the length of the input.
C19_PositionsInsideInput ==
    (Called /\ index <= Len(input) /\ Returns(result)) =>
        /\ index <= result.index
        /\ result.index <= Len(input)

\* No char(undefined) occurs in p.
RECURSIVE Typed(_)
Typed(p) ==
    /\ p.op = "char" => p.c.k = "str"
    /\ "p" \in DOMAIN p => Typed(p.p)
    /\ "ps" \in DOMAIN p => \A k \in DOMAIN p.ps : Typed(p.ps[k])
    /\ "stop" \in DOMAIN p => Typed(p.stop)
    /\ "exclusion" \in DOMAIN p => Typed(p.exclusion)

\* Positions stay inside the input for the parsers in which every char was
\* given a string.
TypedPositionsInsideInput ==
    (Called /\ Typed(parser) /\ index <= Len(input) /\ Returns(result)) =>
        /\ index <= result.index
        /\ result.index <= Len(input)

\* many and many1 return under progress when every char was given a string.
TypedTermination ==
    /\ (parser.op \in {"many", "many1"} /\ Typed(parser) /\ Progresses(parser.p)) =>
          Returns(result)

(***************************************************************************)
(* Properties of MemoSpec.                                                 *)
(***************************************************************************)
Cached(o, i) == o \in DOMAIN memo /\ i \in DOMAIN memo[o]

\* C6: memoization transparency.  Over any sequence of calls, a wrapped
\* parser object runs at most once at each index; a call at an index that
\* has an entry returns the entry and does not run the object; an entry,
\* once stored, is neither changed nor removed.
C6_MemoTransparency ==
    [][ /\ \A o \in Objects, i \in MemoIndexes : invoked'[o][i] <= 1
        /\ \A o \in Objects, i \in MemoIndexes :
              Cached(o, i) =>
                  /\ o \in DOMAIN memo' /\ i \in DOMAIN memo'[o]
                  /\ memo'[o][i] = memo[o][i]
        /\ Cached(Wraps[wrapper'], index') =>
              /\ result' = memo[Wraps[wrapper']][index']
              /\ invoked' = invoked
      ]_vars

\* C6 witness: a call returned a cached Failure without running the parser.
C6_Witness ==
    /\ wrapper # 0 /\ hits >= 2
    /\ calls = <<>>
    /\ Returns(result) /\ ~result.success
    /\ result = memo[Wraps[wrapper]][index]
    /\ invoked[Wraps[wrapper]][index] = 1

\* C7: the cache is keyed by parser object and index only.  A call at an
\* index that has an entry returns the outcome computed for the input of
\* the call that stored it, whatever the input of this call, and does not
\* run the parser.
C7_StaleAcrossInputs ==
    [][ Cached(Wraps[wrapper'], index') =>
            /\ result' = Run(Wrapped[Wraps[wrapper']],
                             origin[Wraps[wrapper']][index'], index').out
            /\ calls' = <<>>
            /\ invoked' = invoked
      ]_vars

\* C7 witness: a call on another input got the outcome of the first input,
\* which is not what the parser returns on the input of this call.
C7_Witness ==
    /\ wrapper # 0 /\ calls = <<>>
    /\ origin[Wraps[wrapper]][index] # input
    /\ result = Run(parser, origin[Wraps[wrapper]][index], index).out
    /\ result # Run(parser, input, index).out

\* C20: one table, keyed by the wrapped parser object.  A call through
\* any wrapper of an object at an index the object has an entry for
\* returns the entry without running the object, whichever wrapper stored
\* it; a call at an index the object has no entry for runs the object on
\* the present input, whatever entries other objects hold, and leaves the
\* entries of the other objects as they are.
C20_SharedTable ==
    [][ LET o == Wraps[wrapper']
        IN  /\ Cached(o, index') =>
                  /\ result' = memo[o][index']
                  /\ calls' = <<>>
                  /\ invoked' = invoked
            /\ ~Cached(o, index') =>
                  /\ result' = Run(Wrapped[o], input', index').out
                  /\ invoked'[o][index'] = invoked[o][index'] + 1
            /\ \A o2 \in Objects \ {o} :
                  /\ invoked'[o2] = invoked[o2]
                  /\ o2 \in DOMAIN memo => (o2 \in DOMAIN memo' /\ memo'[o2] = memo[o2])
                  /\ o2 \notin DOMAIN memo => o2 \notin DOMAIN memo'
      ]_vars

\* C20 witness: a call through one wrapper of an object returned, without
\* running the object, the entry a call through the other wrapper stored,
\* while a structurally equal object has an entry of its own at that index
\* with another outcome.
C20_Witness ==
    /\ wrapper # 0 /\ calls = <<>>
    /\ filledBy[Wraps[wrapper]][index] # wrapper
    /\ result = memo[Wraps[wrapper]][index]
    /\ \E o2 \in Objects \ {Wraps[wrapper]} :
          /\ Wrapped[o2] = parser
          /\ Cached(o2, index)
          /\ memo[o2][index] # result

(***************************************************************************)
(* ChainSpec: the dependent chain of tests/parser.test.ts,                 *)
(*   andThen(integer(), n => string('_'.repeat(n)), s => many(char(s[0]))) *)
(* applied to every bounded input of digits and underscores.               *)
(***************************************************************************)
ChainAlphabet == {"0", "1", "2", "_"}
ChainInputs == Texts(ChainAlphabet, MaxLen)

testChain == andThen(integer, <<"underscores", "manyFirstChar">>)
ChainParsers == {testChain, andThen(integer, <<"underscores">>)}

ChainInit ==
    /\ parser = NoParser
    /\ input \in ChainInputs
    /\ index \in Indexes(input)
    /\ result = Idle
    /\ calls = <<>>
    /\ applied = <<>>
    /\ memo = NoMemo
    /\ invoked = NeverInvoked
    /\ origin = NoOrigin
    /\ filledBy = NoOrigin
    /\ hits = 0
    /\ wrapper = 0

CallChain == \E p \in ChainParsers : Apply(p)

ChainNext == CallChain

ChainSpec == ChainInit /\ [][ChainNext]_vars

(***************************************************************************)
(* Properties of ChainSpec.                                                *)
(***************************************************************************)
\* The input "n" followed by n underscores.
CountThenUnderscores(n) == <<NatToString(n)>> \o Repeat("_", n)

\* C11: dependent chain result.  On a digit n >= 1 followed by exactly n
\* underscores the chain succeeds with a sequence of n '_' at index 1 + n.
C11_ChainResult ==
    \A n \in 1..MaxLen :
        (parser = testChain /\ index = 0 /\ input = CountThenUnderscores(n)) =>
            result = Success(Arr(Repeat(Str(<<"_">>), n)), 1 + n)

=============================================================================
